---- MODULE Spec2Model ----
(***************************************************************************)
(* Project selection optimiser (project_selection_optimisation_example):   *)
(* the notebook builds a 0/1 linear program with PuLP from a list of       *)
(* Project and a list of TeamMember, solves it, and reads the selected     *)
(* projects, the team assignments and the total hours saved back from the  *)
(* variable values.  Every code cell of the notebook is one action; the    *)
(* cells run top to bottom.                                                *)
(***************************************************************************)
EXTENDS Integers, Sequences, FiniteSets, TLC

VARIABLES
    projects,                \* list of Project (cell "creating our projects")
    team,                    \* list of TeamMember
    max_concurrent_projects, \* right-hand side of Max_Concurrent_Projects, or None (cell commented out)
    pc,                      \* the next code cell to run
    objective,               \* the objective of `problem`: variable -> coefficient
    constraints,             \* the constraints added to `problem`
    project_variables,       \* project name -> varValue of SelectProject_<name>
    team_project_variables,  \* <<member name, project name>> -> varValue of Assign_<..>
    status,                  \* LpStatus[problem.status]
    selected_projects,       \* list of project names
    team_assignments,        \* list of <<member name, project name>>
    total_hours_saved,
    call,                    \* the last Project(...) or TeamMember(...) call: the class and its arguments
    exception,               \* the class of the exception that stopped the run, or "None"
    rounding,                \* variable -> how far its varValue is from the integer held for it
    previous                 \* <<status, total_hours_saved>> of the run before this one, << >> when there is none

vars == <<projects, team, max_concurrent_projects, pc, objective, constraints,
          project_variables, team_project_variables, status,
          selected_projects, team_assignments, total_hours_saved,
          call, exception, rounding, previous>>

-----------------------------------------------------------------------------
(* Bounds of the instances. *)

\* hours_saved_per_month ranges over 0..MaxSaved
MaxSaved == 2

\* hours_to_implement and hours_available range over 0..MaxHours
MaxHours == 2

\* Python's None: the varValue of a variable the solver has not set, a name
\* not yet bound, the absent limit.  It equals no number the program computes.
None == -1

-----------------------------------------------------------------------------
(* Data classes. *)

Project(name, saved, implement, skills, level) ==
    [name |-> name, hours_saved_per_month |-> saved,
     hours_to_implement |-> implement, skills_required |-> skills,
     python_level_required |-> level]

TeamMember(name, available, skills, level) ==
    [name |-> name, hours_available |-> available, skills |-> skills,
     python_level |-> level]

\* the reference data of the notebook
ReferenceProjects ==
    << Project("Secondary Deliverables reporting", 20, 160, {"SQL", "Excel"}, 2),
       Project("I&M Work Order generation", 40, 200, {"SQL", "Excel", "APIs"}, 1),
       Project("ISS", 5, 80, {"SQL"}, 1),
       Project("Network Interventions lists", 5, 40, {"SQL"}, 1),
       Project("Pulse Report report generation", 10, 80, {"SQL", "APIs"}, 3) >>

ReferenceTeam ==
    << TeamMember("Kermit the Frog", 180, {"SQL", "Excel"}, 2),
       TeamMember("Sweetums", 140, {"Excel"}, 1),
       TeamMember("Dr Bunsen Honeydew", 160, {"APIs", "SQL", "Excel"}, 3),
       TeamMember("Fozzie the Bear", 220, {"SQL", "Excel"}, 2),
       TeamMember("Pepe the King Prawn", 120, {"SQL", "Excel"}, 1),
       TeamMember("Rowlf the Dog", 140, {"APIs", "SQL", "Excel"}, 3) >>

-----------------------------------------------------------------------------
(* Helpers over lists and sums. *)

Range(s) == {s[i] : i \in DOMAIN s}

ProjectNames == {p.name : p \in Range(projects)}

TeamNames == {tm.name : tm \in Range(team)}

\* sum(f[x] for x in S)
RECURSIVE Sum(_, _)
Sum(f, S) ==
    IF S = {} THEN 0
    ELSE LET x == CHOOSE y \in S : TRUE IN f[x] + Sum(f, S \ {x})

\* sum(s[i] for i), s a list of numbers
RECURSIVE SumSeq(_)
SumSeq(s) == IF s = <<>> THEN 0 ELSE Head(s) + SumSeq(Tail(s))

-----------------------------------------------------------------------------
(* Construction of the data classes: the generated __init__ binds the       *)
(* arguments and calls __post_init__, whose asserts either all pass, and    *)
(* the instance exists, or raise AssertionError, and it does not.           *)

\* a Python value with the type isinstance sees
Value(type, value) == [type |-> type, value |-> value]

\* get_type_hints(Project), get_type_hints(TeamMember), in field order
ProjectHints == <<"str", "int", "int", "List[str]", "int">>

TeamMemberHints == <<"str", "int", "List[str]", "int">>

\* validate_annotations(tested_instance): no assert fails
validate_annotations(args, hints) ==
    \A k \in DOMAIN hints : args[k].type = hints[k]

\* (variant: the skills test left out)
ProjectPostInitLevelOnly(args) ==
    /\ validate_annotations(args, ProjectHints)
    /\ args[5].value \in {0, 1, 2, 3}

\* Project.__post_init__: no assert fails
ProjectPostInit(args) ==
    /\ validate_annotations(args, ProjectHints)
    /\ args[5].value \in {0, 1, 2, 3}
    /\ args[4].value \subseteq {"APIs", "Excel", "SQL"}

\* TeamMember.__post_init__: no assert fails
TeamMemberPostInit(args) ==
    /\ validate_annotations(args, TeamMemberHints)
    /\ args[4].value \in {0, 1, 2, 3}
    /\ args[3].value \subseteq {"APIs", "Excel", "SQL"}

\* the arguments the calls are tried with: whole numbers from -1 up and the
\* float 1.5 (held as its integer part), skill lists with and without the
\* tag "Java", levels from -1 to 4
NumberArguments(max) ==
    {Value("int", n) : n \in -1..max} \cup {Value("float", 1)}

SkillsArguments == {Value("List[str]", S) : S \in SUBSET {"SQL", "Java"}}

LevelArguments == {Value("int", n) : n \in -1..4}

ProjectArguments ==
    {Value("str", "ISS")} \X NumberArguments(MaxSaved) \X NumberArguments(MaxHours)
        \X SkillsArguments \X LevelArguments

TeamMemberArguments ==
    {Value("str", "Kermit the Frog")} \X NumberArguments(MaxHours)
        \X SkillsArguments \X LevelArguments

\* projects = [Project(...)]
NewProject ==
    /\ pc = "projects"
    /\ \E args \in ProjectArguments :
          /\ call' = <<"Project", args>>
          /\ IF ProjectPostInit(args)
             THEN /\ projects' = <<Project(args[1].value, args[2].value, args[3].value,
                                           args[4].value, args[5].value)>>
                  /\ pc' = "team"
                  /\ UNCHANGED exception
             ELSE /\ exception' = "AssertionError"
                  /\ pc' = "raised"
                  /\ UNCHANGED projects
    /\ UNCHANGED <<team, max_concurrent_projects, objective, constraints,
                   project_variables, team_project_variables, status,
                   selected_projects, team_assignments, total_hours_saved,
                   rounding, previous>>

\* team = [TeamMember(...)]
NewTeamMember ==
    /\ pc = "team"
    /\ \E args \in TeamMemberArguments :
          /\ call' = <<"TeamMember", args>>
          /\ IF TeamMemberPostInit(args)
             THEN /\ team' = <<TeamMember(args[1].value, args[2].value, args[3].value,
                                          args[4].value)>>
                  /\ pc' = "variables"
                  /\ UNCHANGED exception
             ELSE /\ exception' = "AssertionError"
                  /\ pc' = "raised"
                  /\ UNCHANGED team
    /\ UNCHANGED <<projects, max_concurrent_projects, objective, constraints,
                   project_variables, team_project_variables, status,
                   selected_projects, team_assignments, total_hours_saved,
                   rounding, previous>>

NextConstruct == NewProject \/ NewTeamMember

-----------------------------------------------------------------------------
(* Decision variables and linear constraints, as PuLP holds them. *)

\* project_variables[p]: LpVariable SelectProject_<p>
SelectVar(p) == <<"SelectProject", p>>

\* team_project_variables[(tm, p)]: LpVariable Assign_<tm>_<p>
AssignVar(tm, p) == <<"Assign", tm, p>>

SelectVars == {SelectVar(p) : p \in ProjectNames}

RowVars(tm) == {AssignVar(tm, p) : p \in ProjectNames}

AssignVars == UNION {RowVars(tm) : tm \in TeamNames}

AllVars == SelectVars \cup AssignVars

\* an LpConstraint: lhs (variable -> coefficient) sense rhs, under a name
Constraint(name, lhs, sense, rhs) ==
    [name |-> name, lhs |-> lhs, sense |-> sense, rhs |-> rhs]

\* lpSum(terms), terms a list of <<variable, coefficient>>: the coefficients of
\* one variable add up
LpSum(terms) ==
    [v \in {terms[i][1] : i \in DOMAIN terms} |->
        Sum([i \in DOMAIN terms |-> terms[i][2]],
            {i \in DOMAIN terms : terms[i][1] = v})]

\* the value of a linear expression when exactly the variables of `on` are 1
\* and the others 0
LhsValue(lhs, on) == Sum(lhs, DOMAIN lhs \cap on)

\* whether the 0/1 values `on` satisfy constraint c
Satisfies(c, on) ==
    CASE c.sense = "<=" -> LhsValue(c.lhs, on) <= c.rhs
      [] c.sense = ">=" -> LhsValue(c.lhs, on) >= c.rhs
      [] c.sense = "==" -> LhsValue(c.lhs, on) = c.rhs

-----------------------------------------------------------------------------
(* The code cells, top to bottom. *)

\* problem = LpProblem(..., sense=LpMaximize); the two LpVariable.dicts
DefineVariables ==
    /\ pc = "variables"
    /\ objective' = <<>>
    /\ constraints' = {}
    /\ project_variables' = [p \in ProjectNames |-> None]
    /\ team_project_variables' = [k \in TeamNames \X ProjectNames |-> None]
    /\ pc' = "objective"
    /\ UNCHANGED <<call, exception, rounding, previous>>
    /\ UNCHANGED <<projects, team, max_concurrent_projects, status,
                   selected_projects, team_assignments, total_hours_saved>>

\* (variant: the hours to implement in place of the hours saved)
TotalHoursToImplementObjective ==
    LpSum([i \in DOMAIN projects |->
              <<SelectVar(projects[i].name), projects[i].hours_to_implement>>])

\* problem += lpSum([project_variables[p.name] * p.hours_saved_per_month ...])
TotalHoursSavedObjective ==
    LpSum([i \in DOMAIN projects |->
              <<SelectVar(projects[i].name), projects[i].hours_saved_per_month>>])

SetObjective ==
    /\ pc = "objective"
    /\ objective' = TotalHoursSavedObjective
    /\ pc' = "max_concurrent"
    /\ UNCHANGED <<call, exception, rounding, previous>>
    /\ UNCHANGED <<projects, team, max_concurrent_projects, constraints,
                   project_variables, team_project_variables, status,
                   selected_projects, team_assignments, total_hours_saved>>

\* (variant: one project more than the limit)
MaxConcurrentPlusOneConstraints(limit) ==
    { Constraint(<<"Max_Concurrent_Projects">>,
                 LpSum([i \in DOMAIN projects |-> <<SelectVar(projects[i].name), 1>>]),
                 "<=", limit + 1) }

\* lpSum([project_variables[p.name] for p in projects]) <= 2, with the limit
\* in place of the 2
MaxConcurrentConstraints(limit) ==
    { Constraint(<<"Max_Concurrent_Projects">>,
                 LpSum([i \in DOMAIN projects |-> <<SelectVar(projects[i].name), 1>>]),
                 "<=", limit) }

\* The cell is commented out in the notebook: run as it stands
\* (max_concurrent_projects = None) it adds nothing.
MaxConcurrentProjects ==
    /\ pc = "max_concurrent"
    /\ constraints' =
          IF max_concurrent_projects = None THEN constraints
          ELSE constraints \cup MaxConcurrentConstraints(max_concurrent_projects)
    /\ pc' = "only_if_selected"
    /\ UNCHANGED <<call, exception, rounding, previous>>
    /\ UNCHANGED <<projects, team, max_concurrent_projects, objective,
                   project_variables, team_project_variables, status,
                   selected_projects, team_assignments, total_hours_saved>>

\* (variant: the inequality the other way round)
SelectedOnlyIfAssignedConstraints ==
    { Constraint(<<"Assign_OnlyIfProjectSelected", tm.name, p.name>>,
                 LpSum(<< <<AssignVar(tm.name, p.name), 1>>,
                          <<SelectVar(p.name), -1>> >>),
                 ">=", 0) : tm \in Range(team), p \in Range(projects) }

\* team_project_variables[(tm.name, p.name)] <= project_variables[p.name]
OnlyIfProjectSelectedConstraints ==
    { Constraint(<<"Assign_OnlyIfProjectSelected", tm.name, p.name>>,
                 LpSum(<< <<AssignVar(tm.name, p.name), 1>>,
                          <<SelectVar(p.name), -1>> >>),
                 "<=", 0) : tm \in Range(team), p \in Range(projects) }

\* the names the loop gives its constraints, in the order it adds them
OnlyIfProjectSelectedNames ==
    [k \in 1..(Len(team) * Len(projects)) |->
        << "Assign_OnlyIfProjectSelected",
           team[((k - 1) \div Len(projects)) + 1].name,
           projects[((k - 1) % Len(projects)) + 1].name >>]

\* LpProblem.addConstraint refuses a name problem.constraints already holds:
\* the places of `names` whose name stands at an earlier place too
Overlapping(names) ==
    {k \in DOMAIN names : \E j \in 1..(k - 1) : names[j] = names[k]}

Minimum(S) == CHOOSE x \in S : \A y \in S : x <= y

\* With a name twice among the projects or the team the loop adds the
\* constraints up to the first repeated name and stops there with PuLP's
\* PulpError("overlapping constraint names").
OnlyIfProjectSelected ==
    /\ pc = "only_if_selected"
    /\ LET names == OnlyIfProjectSelectedNames
           clash == Overlapping(names)
       IN  IF clash = {}
           THEN /\ constraints' = constraints \cup OnlyIfProjectSelectedConstraints
                /\ pc' = "skill_match"
                /\ UNCHANGED exception
           ELSE /\ constraints' = constraints \cup
                      {c \in OnlyIfProjectSelectedConstraints :
                          \E j \in 1..(Minimum(clash) - 1) : c.name = names[j]}
                /\ exception' = "PulpError"
                /\ pc' = "raised"
    /\ UNCHANGED <<call, rounding, previous>>
    /\ UNCHANGED <<projects, team, max_concurrent_projects, objective,
                   project_variables, team_project_variables, status,
                   selected_projects, team_assignments, total_hours_saved>>

\* (variant: the level test left out)
LacksSkill(tm, p) == ~(p.skills_required \subseteq tm.skills)

\* (variant: the two tests joined by `and`)
LacksSkillAndLevel(tm, p) ==
    /\ ~(p.skills_required \subseteq tm.skills)
    /\ tm.python_level < p.python_level_required

\* not set(p.skills_required).issubset(set(tm.skills))
\*     or tm.python_level < p.python_level_required
LacksSkillOrLevel(tm, p) ==
    \/ ~(p.skills_required \subseteq tm.skills)
    \/ tm.python_level < p.python_level_required

\* team_project_variables[(tm.name, p.name)] == 0
SkillPythonLevelMatchConstraints ==
    { Constraint(<<"Skill_Python_Level_Match", pr[1].name, pr[2].name>>,
                 LpSum(<< <<AssignVar(pr[1].name, pr[2].name), 1>> >>),
                 "==", 0) :
        pr \in {q \in Range(team) \X Range(projects) : LacksSkillOrLevel(q[1], q[2])} }

SkillPythonLevelMatch ==
    /\ pc = "skill_match"
    /\ constraints' = constraints \cup SkillPythonLevelMatchConstraints
    /\ pc' = "hours_available"
    /\ UNCHANGED <<call, exception, rounding, previous>>
    /\ UNCHANGED <<projects, team, max_concurrent_projects, objective,
                   project_variables, team_project_variables, status,
                   selected_projects, team_assignments, total_hours_saved>>

\* (variant: the hours saved in place of the hours to implement)
TotalHoursSavedAssigned(tm) ==
    LpSum([i \in DOMAIN projects |->
              <<AssignVar(tm.name, projects[i].name), projects[i].hours_saved_per_month>>])

\* total_hours_assigned = lpSum([team_project_variables[(tm.name, p.name)]
\*                               * p.hours_to_implement for p in projects])
TotalHoursAssigned(tm) ==
    LpSum([i \in DOMAIN projects |->
              <<AssignVar(tm.name, projects[i].name), projects[i].hours_to_implement>>])

\* (variant: one hour more than available)
HoursAvailablePlusOneConstraints ==
    { Constraint(<<"Hours_Available", tm.name>>, TotalHoursAssigned(tm),
                 "<=", tm.hours_available + 1) : tm \in Range(team) }

\* total_hours_assigned <= tm.hours_available
HoursAvailableConstraints ==
    { Constraint(<<"Hours_Available", tm.name>>, TotalHoursAssigned(tm),
                 "<=", tm.hours_available) : tm \in Range(team) }

HoursAvailable ==
    /\ pc = "hours_available"
    /\ constraints' = constraints \cup HoursAvailableConstraints
    /\ pc' = "team_assignment"
    /\ UNCHANGED <<call, exception, rounding, previous>>
    /\ UNCHANGED <<projects, team, max_concurrent_projects, objective,
                   project_variables, team_project_variables, status,
                   selected_projects, team_assignments, total_hours_saved>>

\* (variant: <= in place of >=)
TeamAssignmentAtMostConstraints ==
    { Constraint(<<"Team_Assignment", p.name>>,
                 LpSum([i \in DOMAIN team |-> <<AssignVar(team[i].name, p.name), 1>>]
                       \o << <<SelectVar(p.name), -1>> >>),
                 "<=", 0) : p \in Range(projects) }

\* (variant: a member for every project, selected or not)
TeamAssignmentRequiredConstraints ==
    { Constraint(<<"Team_Assignment", p.name>>,
                 LpSum([i \in DOMAIN team |-> <<AssignVar(team[i].name, p.name), 1>>]),
                 ">=", 1) : p \in Range(projects) }

\* total_team_assigned = lpSum([team_project_variables[(tm.name, p.name)] for tm in team])
\* total_team_assigned >= project_variables[p.name]
TeamAssignmentConstraints ==
    { Constraint(<<"Team_Assignment", p.name>>,
                 LpSum([i \in DOMAIN team |-> <<AssignVar(team[i].name, p.name), 1>>]
                       \o << <<SelectVar(p.name), -1>> >>),
                 ">=", 0) : p \in Range(projects) }

TeamAssignment ==
    /\ pc = "team_assignment"
    /\ constraints' = constraints \cup TeamAssignmentConstraints
    /\ pc' = "solve"
    /\ UNCHANGED <<call, exception, rounding, previous>>
    /\ UNCHANGED <<projects, team, max_concurrent_projects, objective,
                   project_variables, team_project_variables, status,
                   selected_projects, team_assignments, total_hours_saved>>

-----------------------------------------------------------------------------
(* problem.solve(): the solver returns a 0/1 value for every variable that  *)
(* satisfies every constraint of `problem` and maximises the objective, any *)
(* such optimum when there are several.  The search enumerates the values   *)
(* row by row: a constraint is tested as soon as all its variables are set. *)

Scope(c) == DOMAIN c.lhs

\* the values of the SelectProject variables allowed by the constraints over them
SelectChoices ==
    {S \in SUBSET SelectVars :
        \A c \in constraints : Scope(c) \subseteq SelectVars => Satisfies(c, S)}

\* given S, the values of one member's Assign variables allowed by the
\* constraints over those and the SelectProject variables
RowChoices(tm, S) ==
    {R \in SUBSET RowVars(tm) :
        \A c \in constraints :
            Scope(c) \subseteq (SelectVars \cup RowVars(tm)) => Satisfies(c, S \cup R)}

RECURSIVE RowsFrom(_, _)
RowsFrom(i, S) ==
    IF i > Len(team) THEN {{}}
    ELSE LET rest == RowsFrom(i + 1, S)
         IN  UNION {{R \cup A : A \in rest} : R \in RowChoices(team[i].name, S)}

Candidates == UNION {{S \cup A : A \in RowsFrom(1, S)} : S \in SelectChoices}

Feasible(on) == \A c \in constraints : Satisfies(c, on)

FeasibleSolutions == {on \in Candidates : Feasible(on)}

ObjectiveValue(on) == LhsValue(objective, on)

\* sense = LpMaximize
Maximum(S) == CHOOSE x \in S : \A y \in S : y <= x

\* (variant: sense = LpMinimize)
MinimalAmong(F) ==
    LET least == CHOOSE x \in {ObjectiveValue(on) : on \in F} :
                     \A on \in F : x <= ObjectiveValue(on)
    IN  {on \in F : ObjectiveValue(on) = least}

\* (variant: any solution that satisfies the constraints)
FeasibleAmong(F) == F

OptimalAmong(F) ==
    LET best == Maximum({ObjectiveValue(on) : on \in F})
    IN  {on \in F : ObjectiveValue(on) = best}

OptimalSolutions == OptimalAmong(FeasibleSolutions)

\* the solver's values written back into the LpVariables
SetVarValues(on) ==
    /\ project_variables' =
          [p \in ProjectNames |-> IF SelectVar(p) \in on THEN 1 ELSE 0]
    /\ team_project_variables' =
          [k \in TeamNames \X ProjectNames |->
              IF AssignVar(k[1], k[2]) \in on THEN 1 ELSE 0]
    /\ rounding' = [v \in AllVars |-> 0]

\* An infeasible problem still leaves values in the variables, and nothing
\* says which.
Solve ==
    /\ pc = "solve"
    /\ LET F == FeasibleSolutions
       IN  IF F = {}
           THEN /\ status' = "Infeasible"
                /\ \E on \in SUBSET AllVars : SetVarValues(on)
           ELSE /\ status' = "Optimal"
                /\ \E on \in OptimalAmong(F) : SetVarValues(on)
    /\ pc' = "extract"
    /\ UNCHANGED <<call, exception, previous>>
    /\ UNCHANGED <<projects, team, max_concurrent_projects, objective,
                   constraints, selected_projects, team_assignments,
                   total_hours_saved>>

-----------------------------------------------------------------------------
(* Results interpretation. *)

\* project_variables[p.name].varValue == 1: the float is the integer 1 itself
IsSelected(p) ==
    project_variables[p.name] = 1 /\ rounding[SelectVar(p.name)] = 0

\* (variant: each name put at the front of the list)
SelectedProjectsReversed ==
    LET chosen == SelectSeq(projects, IsSelected)
    IN  [i \in 1..Len(chosen) |-> chosen[Len(chosen) + 1 - i].name]

\* for p in projects: if project_variables[p.name].varValue == 1: append(p.name)
SelectedProjects ==
    LET chosen == SelectSeq(projects, IsSelected)
    IN  [i \in 1..Len(chosen) |-> chosen[i].name]

\* [(tm.name, p.name) for tm in team for p in projects]
TeamProjectPairs ==
    [k \in 1..(Len(team) * Len(projects)) |->
        << team[((k - 1) \div Len(projects)) + 1].name,
           projects[((k - 1) % Len(projects)) + 1].name >>]

\* team_project_variables[k].varValue == 1
IsAssigned(k) ==
    team_project_variables[k] = 1 /\ rounding[AssignVar(k[1], k[2])] = 0

\* for tm in team: for p in projects:
\*     if team_project_variables[(tm.name, p.name)].varValue == 1: append(...)
TeamAssignments ==
    IF Len(projects) = 0 THEN <<>> ELSE SelectSeq(TeamProjectPairs, IsAssigned)

ExtractResults ==
    /\ pc = "extract"
    /\ selected_projects' = SelectedProjects
    /\ team_assignments' = TeamAssignments
    /\ pc' = "total"
    /\ UNCHANGED <<call, exception, rounding, previous>>
    /\ UNCHANGED <<projects, team, max_concurrent_projects, objective,
                   constraints, project_variables, team_project_variables,
                   status, total_hours_saved>>

\* sum([p.hours_saved_per_month for p in projects
\*      if project_variables[p.name].varValue == 1])
TotalHoursSavedValue ==
    LET chosen == SelectSeq(projects, IsSelected)
    IN  SumSeq([i \in 1..Len(chosen) |-> chosen[i].hours_saved_per_month])

TotalHoursSaved ==
    /\ pc = "total"
    /\ total_hours_saved' = TotalHoursSavedValue
    /\ pc' = "done"
    /\ UNCHANGED <<call, exception, rounding, previous>>
    /\ UNCHANGED <<projects, team, max_concurrent_projects, objective,
                   constraints, project_variables, team_project_variables,
                   status, selected_projects, team_assignments>>

Next ==
    \/ DefineVariables
    \/ SetObjective
    \/ MaxConcurrentProjects
    \/ OnlyIfProjectSelected
    \/ SkillPythonLevelMatch
    \/ HoursAvailable
    \/ TeamAssignment
    \/ Solve
    \/ ExtractResults
    \/ TotalHoursSaved

-----------------------------------------------------------------------------
(* Initial states: the data cell has run, nothing else has. *)

\* before the cells run none of their names is bound
Fresh ==
    /\ pc = "variables"
    /\ objective = <<>>
    /\ constraints = {}
    /\ project_variables = <<>>
    /\ team_project_variables = <<>>
    /\ status = "Not Solved"
    /\ selected_projects = <<>>
    /\ team_assignments = <<>>
    /\ total_hours_saved = None
    /\ call = <<>>
    /\ exception = "None"
    /\ rounding = <<>>
    /\ previous = <<>>

\* The general instances: the notebook's ISS project and a second project with
\* any of the requirement profiles below, for Kermit the Frog and Rowlf the
\* Dog with their skills; every number of hours varies.

\* (skills_required, python_level_required) of the second project
ProjectProfiles ==
    { <<{"SQL"}, 1>>, <<{"SQL", "Excel"}, 3>>, <<{"SQL", "APIs"}, 1>>,
      <<{"SQL", "APIs"}, 3>> }

GeneralProjects ==
    { << Project("ISS", b[1], e[1], {"SQL"}, 1),
         Project("Pulse Report report generation", b[2], e[2], pf[1], pf[2]) >> :
        b \in (0..MaxSaved) \X (0..MaxSaved),
        e \in (0..MaxHours) \X (0..MaxHours),
        pf \in ProjectProfiles }

GeneralTeams ==
    { << TeamMember("Kermit the Frog", h[1], {"SQL", "Excel"}, 2),
         TeamMember("Rowlf the Dog", h[2], {"APIs", "SQL", "Excel"}, 3) >> :
        h \in (0..MaxHours) \X (0..MaxHours) }

\* the notebook as it stands, on any general instance
Init ==
    /\ projects \in GeneralProjects
    /\ team \in GeneralTeams
    /\ max_concurrent_projects = None
    /\ Fresh

Spec == Init /\ [][Next]_vars

\* the notebook as it stands, on its own data
InitReference ==
    /\ projects = ReferenceProjects
    /\ team = ReferenceTeam
    /\ max_concurrent_projects = None
    /\ Fresh

SpecReference == InitReference /\ [][Next]_vars

\* The notebook with the Max_Concurrent_Projects cell switched on, for any
\* limit: three of its projects, one hour each, for Kermit the Frog and Rowlf
\* the Dog.

\* the limit ranges over 0..MaxLimit
MaxLimit == 2

LimitedProjects ==
    { << Project("ISS", b[1], 1, {"SQL"}, 1),
         Project("Network Interventions lists", b[2], 1, {"SQL"}, 1),
         Project("Pulse Report report generation", b[3], 1, {"SQL", "APIs"}, 3) >> :
        b \in (0..MaxSaved) \X (0..MaxSaved) \X (0..MaxSaved) }

InitLimited ==
    /\ projects \in LimitedProjects
    /\ team \in GeneralTeams
    /\ max_concurrent_projects \in 0..MaxLimit
    /\ Fresh

SpecLimited == InitLimited /\ [][Next]_vars

\* A test harness around the notebook: before solving it may add
\* project_variables[p] == 1 for a project p.
ForceSelectName(p) == <<"Force_Select", p>>

ForceSelect(p) ==
    /\ pc = "solve"
    /\ \A c \in constraints : c.name # ForceSelectName(p)
    /\ constraints' = constraints \cup
          { Constraint(ForceSelectName(p), LpSum(<< <<SelectVar(p), 1>> >>), "==", 1) }
    /\ UNCHANGED <<call, exception, rounding, previous>>
    /\ UNCHANGED <<projects, team, max_concurrent_projects, pc, objective,
                   project_variables, team_project_variables, status,
                   selected_projects, team_assignments, total_hours_saved>>

NextHarness == Next \/ \E p \in ProjectNames : ForceSelect(p)

\* (skills, python_level) of the second member of the harness's team
HarnessProfiles ==
    { <<{"SQL", "Excel"}, 1>>, <<{"APIs", "SQL", "Excel"}, 2>>,
      <<{"APIs", "SQL", "Excel"}, 3>> }

HarnessProjects ==
    { << Project("ISS", 1, e[1], {"SQL"}, 1),
         Project("Pulse Report report generation", MaxSaved, e[2], {"SQL", "APIs"}, 3) >> :
        e \in (0..MaxHours) \X (0..MaxHours) }

HarnessTeams ==
    { << TeamMember("Kermit the Frog", h[1], {"SQL", "Excel"}, 2),
         TeamMember("Rowlf the Dog", h[2], pf[1], pf[2]) >> :
        h \in (0..MaxHours) \X (0..MaxHours), pf \in HarnessProfiles }

InitHarness ==
    /\ projects \in HarnessProjects
    /\ team \in HarnessTeams
    /\ max_concurrent_projects = None
    /\ Fresh

SpecHarness == InitHarness /\ [][NextHarness]_vars

\* the data cell from the start, with one call of each class
InitConstruct ==
    /\ projects = <<>>
    /\ team = <<>>
    /\ max_concurrent_projects = None
    /\ pc = "projects"
    /\ objective = <<>>
    /\ constraints = {}
    /\ project_variables = <<>>
    /\ team_project_variables = <<>>
    /\ status = "Not Solved"
    /\ selected_projects = <<>>
    /\ team_assignments = <<>>
    /\ total_hours_saved = None
    /\ call = <<>>
    /\ exception = "None"
    /\ rounding = <<>>
    /\ previous = <<>>

SpecConstruct == InitConstruct /\ [][NextConstruct]_vars

\* The notebook on lists whose names need not differ: two projects named from
\* two of the notebook's project names, two members named from two of its
\* member names.
NamedProjects ==
    { << Project(n[1], b, 1, {"SQL"}, 1), Project(n[2], 1, e, {"SQL"}, 1) >> :
        n \in {"ISS", "Network Interventions lists"} \X {"ISS", "Network Interventions lists"},
        b \in 0..MaxSaved, e \in 0..MaxHours }

NamedTeams ==
    { << TeamMember(n[1], h, {"SQL", "Excel"}, 2), TeamMember(n[2], 1, {"SQL", "Excel"}, 1) >> :
        n \in {"Kermit the Frog", "Pepe the King Prawn"} \X {"Kermit the Frog", "Pepe the King Prawn"},
        h \in 0..MaxHours }

InitNames ==
    /\ projects \in NamedProjects
    /\ team \in NamedTeams
    /\ max_concurrent_projects = None
    /\ Fresh

SpecNames == InitNames /\ [][Next]_vars

\* The notebook on members whose hours_available may be below zero, which
\* TeamMember accepts: ISS and the Pulse Report project, for Kermit the Frog
\* and Rowlf the Dog.
SignedProjects ==
    { << Project("ISS", 1, e[1], {"SQL"}, 1),
         Project("Pulse Report report generation", MaxSaved, e[2], {"SQL", "APIs"}, 3) >> :
        e \in (0..MaxHours) \X (0..MaxHours) }

SignedTeams ==
    { << TeamMember("Kermit the Frog", h[1], {"SQL", "Excel"}, 2),
         TeamMember("Rowlf the Dog", h[2], {"APIs", "SQL", "Excel"}, 3) >> :
        h \in (-1..MaxHours) \X (-1..MaxHours) }

InitSigned ==
    /\ projects \in SignedProjects
    /\ team \in SignedTeams
    /\ max_concurrent_projects = None
    /\ Fresh

SpecSigned == InitSigned /\ [][Next]_vars

\* A solver adapter outside its contract, in place of problem.solve(): it
\* reports Optimal and leaves any 0/1 values in the variables.
AdapterReturns ==
    /\ pc = "solve"
    /\ status' = "Optimal"
    /\ \E on \in SUBSET AllVars : SetVarValues(on)
    /\ pc' = "extract"
    /\ UNCHANGED <<call, exception, previous>>
    /\ UNCHANGED <<projects, team, max_concurrent_projects, objective,
                   constraints, selected_projects, team_assignments,
                   total_hours_saved>>

NextAdapter == Next \/ AdapterReturns

InitAdapter ==
    /\ projects \in SignedProjects
    /\ team \in GeneralTeams
    /\ max_concurrent_projects = None
    /\ Fresh

SpecAdapter == InitAdapter /\ [][NextAdapter]_vars

\* problem.solve() with a solver that returns floats: an optimum, where a
\* variable at 1 may come back a little below 1 (rounding -1: closer to 1
\* than to 0.5, and not 1).
SolveWithinTolerance ==
    /\ pc = "solve"
    /\ LET F == FeasibleSolutions
       IN  /\ F # {}
           /\ status' = "Optimal"
           /\ \E on \in OptimalAmong(F) : \E near \in SUBSET on :
                 /\ project_variables' =
                       [p \in ProjectNames |-> IF SelectVar(p) \in on THEN 1 ELSE 0]
                 /\ team_project_variables' =
                       [k \in TeamNames \X ProjectNames |->
                           IF AssignVar(k[1], k[2]) \in on THEN 1 ELSE 0]
                 /\ rounding' = [v \in AllVars |-> IF v \in near THEN -1 ELSE 0]
    /\ pc' = "extract"
    /\ UNCHANGED <<call, exception, previous>>
    /\ UNCHANGED <<projects, team, max_concurrent_projects, objective,
                   constraints, selected_projects, team_assignments,
                   total_hours_saved>>

NextTolerance == Next \/ SolveWithinTolerance

SpecTolerance == InitAdapter /\ [][NextTolerance]_vars

\* The cells run a second time on the same lists: every name the cells bind
\* is bound afresh, and what the first run ended with is kept for comparison.
RunAgain ==
    /\ pc = "done"
    /\ previous = <<>>
    /\ previous' = <<status, total_hours_saved>>
    /\ pc' = "variables"
    /\ objective' = <<>>
    /\ constraints' = {}
    /\ project_variables' = <<>>
    /\ team_project_variables' = <<>>
    /\ rounding' = <<>>
    /\ status' = "Not Solved"
    /\ selected_projects' = <<>>
    /\ team_assignments' = <<>>
    /\ total_hours_saved' = None
    /\ UNCHANGED <<projects, team, max_concurrent_projects, call, exception>>

NextTwice == Next \/ RunAgain

\* two projects either member is qualified for, one hour each, of any
\* benefit, and members with any hours available, negative ones too
TwiceProjects ==
    { << Project("ISS", b[1], 1, {"SQL"}, 1),
         Project("Network Interventions lists", b[2], 1, {"SQL"}, 1) >> :
        b \in (0..MaxSaved) \X (0..MaxSaved) }

InitTwice ==
    /\ projects \in TwiceProjects
    /\ team \in SignedTeams
    /\ max_concurrent_projects = None
    /\ Fresh

SpecTwice == InitTwice /\ [][NextTwice]_vars

\* The notebook on projects that may ask for more than any member offers:
\* each of two projects asks for SQL at level 1 or for SQL and APIs at level
\* 3; Kermit the Frog has any hours, negative ones too; Rowlf the Dog has any
\* of the profiles of HarnessProfiles.
StaffingProjects ==
    { << Project("ISS", 1, e, pf[1][1], pf[1][2]),
         Project("Pulse Report report generation", MaxSaved, 1, pf[2][1], pf[2][2]) >> :
        e \in 0..MaxHours,
        pf \in { <<{"SQL"}, 1>>, <<{"SQL", "APIs"}, 3>> } \X
               { <<{"SQL"}, 1>>, <<{"SQL", "APIs"}, 3>> } }

StaffingTeams ==
    { << TeamMember("Kermit the Frog", h, {"SQL", "Excel"}, 2),
         TeamMember("Rowlf the Dog", 1, pf[1], pf[2]) >> :
        h \in -1..MaxHours, pf \in HarnessProfiles }

InitStaffing ==
    /\ projects \in StaffingProjects
    /\ team \in StaffingTeams
    /\ max_concurrent_projects = None
    /\ Fresh

SpecStaffing == InitStaffing /\ [][Next]_vars

\* The notebook on projects whose hours_to_implement may be below zero, which
\* Project accepts: two projects either member is qualified for.
SignedEffortProjects ==
    { << Project("ISS", 1, e[1], {"SQL"}, 1),
         Project("Network Interventions lists", MaxSaved, e[2], {"SQL"}, 1) >> :
        e \in (-1..MaxHours) \X (-1..MaxHours) }

InitSignedEffort ==
    /\ projects \in SignedEffortProjects
    /\ team \in GeneralTeams
    /\ max_concurrent_projects = None
    /\ Fresh

SpecSignedEffort == InitSignedEffort /\ [][Next]_vars

-----------------------------------------------------------------------------
(* Properties.  They are stated over the input data and the results, not    *)
(* over the constraints the cells built.                                    *)

ProjectNamed(n) == CHOOSE p \in Range(projects) : p.name = n

MemberNamed(n) == CHOOSE tm \in Range(team) : tm.name = n

\* required_skills[p] \subseteq skills[m] and level[m] >= required_level[p]
Qualifies(tm, p) ==
    /\ p.skills_required \subseteq tm.skills
    /\ tm.python_level >= p.python_level_required

\* the solver has run and found an optimum
Solved == pc \in {"extract", "total", "done"} /\ status = "Optimal"

\* the results have been read back from an optimum
Emitted == pc \in {"total", "done"} /\ status = "Optimal"

Assign(tm, p) == team_project_variables[<<tm.name, p.name>>]

Select(p) == project_variables[p.name]

EmittedPairs == Range(team_assignments)

\* the hours charged to tm: the full hours_to_implement of each project it is assigned to
HoursCharged(tm) ==
    SumSeq([i \in DOMAIN projects |->
               Assign(tm, projects[i]) * projects[i].hours_to_implement])

\* C1: in a solved instance every pair with assign = 1, and every emitted
\* assignment, is qualified: the member has all the required skills and at
\* least the required level.
C1_Qualification ==
    /\ Solved =>
          \A tm \in Range(team), p \in Range(projects) :
              Assign(tm, p) = 1 => Qualifies(tm, p)
    /\ Emitted =>
          \A a \in EmittedPairs : Qualifies(MemberNamed(a[1]), ProjectNamed(a[2]))

\* a selected project staffed by its qualified member while another member,
\* with hours enough for it, lacks the skill or the level
C1_Witness ==
    /\ Emitted /\ pc = "done"
    /\ \E tm \in Range(team), p \in Range(projects) :
          /\ ~Qualifies(tm, p)
          /\ tm.hours_available >= p.hours_to_implement
          /\ Select(p) = 1
          /\ \E a \in EmittedPairs : a[2] = p.name

\* C2: in a solved instance the full hours_to_implement of the projects a
\* member is assigned to sum to at most its hours_available, whoever else is
\* assigned to the same projects.
C2_Capacity ==
    /\ Solved => \A tm \in Range(team) : HoursCharged(tm) <= tm.hours_available
    /\ Emitted =>
          \A tm \in Range(team) :
              Sum([a \in EmittedPairs |-> ProjectNamed(a[2]).hours_to_implement],
                  {a \in EmittedPairs : a[1] = tm.name}) <= tm.hours_available

\* a project of non-zero effort with two assignees, each charged all of it
C2_Witness ==
    /\ Emitted /\ pc = "done"
    /\ \E p \in Range(projects) :
          /\ p.hours_to_implement > 0
          /\ Cardinality({a \in EmittedPairs : a[2] = p.name}) = 2
          /\ \A tm \in Range(team) : HoursCharged(tm) >= p.hours_to_implement

\* C3: in a solved instance a pair with assign = 1 belongs to a selected
\* project, and every emitted assignment names an emitted selected project.
C3_AssignmentImpliesSelection ==
    /\ Solved =>
          \A tm \in Range(team), p \in Range(projects) :
              Assign(tm, p) = 1 => Select(p) = 1
    /\ (Emitted /\ pc = "done") =>
          \A a \in EmittedPairs : a[2] \in Range(selected_projects)

\* an unselected project that a member is qualified for and has the hours
\* for, beside a selected project with an assignee
C3_Witness ==
    /\ Emitted /\ pc = "done"
    /\ EmittedPairs # {}
    /\ \E tm \in Range(team), p \in Range(projects) :
          /\ Select(p) = 0
          /\ Qualifies(tm, p)
          /\ tm.hours_available >= p.hours_to_implement

\* C4: in a solved instance every selected project has a qualified assignee.
C4_Staffing ==
    /\ Solved =>
          \A p \in Range(projects) :
              Select(p) = 1 =>
                 \E tm \in Range(team) : Assign(tm, p) = 1 /\ Qualifies(tm, p)
    /\ (Emitted /\ pc = "done") =>
          \A n \in Range(selected_projects) :
              \E a \in EmittedPairs :
                  a[2] = n /\ Qualifies(MemberNamed(a[1]), ProjectNamed(n))

\* one project selected with a single assignee, the other unselected with none
C4_Witness ==
    /\ Emitted /\ pc = "done"
    /\ \E p, q \in Range(projects) :
          /\ Select(p) = 1
          /\ Cardinality({a \in EmittedPairs : a[2] = p.name}) = 1
          /\ Select(q) = 0
          /\ {a \in EmittedPairs : a[2] = q.name} = {}

\* a plan: the selected project names and the assigned <<member, project>> names
Plans == (SUBSET ProjectNames) \X (SUBSET (TeamNames \X ProjectNames))

\* the plan satisfies assignment-implies-selection, qualification, capacity,
\* staffing, and the cap when there is one
ValidPlan(sel, asg) ==
    /\ \A a \in asg : a[2] \in sel
    /\ \A a \in asg : Qualifies(MemberNamed(a[1]), ProjectNamed(a[2]))
    /\ \A tm \in Range(team) :
          Sum([a \in asg |-> ProjectNamed(a[2]).hours_to_implement],
              {a \in asg : a[1] = tm.name}) <= tm.hours_available
    /\ \A n \in sel : \E a \in asg : a[2] = n
    /\ max_concurrent_projects # None => Cardinality(sel) <= max_concurrent_projects

PlanBenefit(sel) == Sum([n \in sel |-> ProjectNamed(n).hours_saved_per_month], sel)

\* C5: the total reported for an optimum is the benefit of a valid plan and
\* no valid plan has a larger benefit.
C5_Optimality ==
    (Emitted /\ pc = "done") =>
        /\ \E pl \in Plans :
              ValidPlan(pl[1], pl[2]) /\ PlanBenefit(pl[1]) = total_hours_saved
        /\ \A pl \in Plans :
              ValidPlan(pl[1], pl[2]) => PlanBenefit(pl[1]) <= total_hours_saved

\* two projects of different benefit, each of which could be staffed alone
\* but not both: the one of larger benefit is the one reported
C5_Witness ==
    /\ Emitted /\ pc = "done"
    /\ \E p, q \in Range(projects) :
          /\ p.hours_saved_per_month > q.hours_saved_per_month
          /\ q.hours_saved_per_month > 0
          /\ \E pl \in Plans : ValidPlan(pl[1], pl[2]) /\ q.name \in pl[1]
          /\ selected_projects = <<p.name>>
          /\ total_hours_saved = p.hours_saved_per_month

\* the names the notebook prints as selected
ReferenceSelection ==
    <<"Secondary Deliverables reporting", "ISS", "Network Interventions lists",
      "Pulse Report report generation">>

\* C6: on the reference data, without the limit, the run ends Optimal, the
\* selected projects are exactly the four named and the total is 40.
C6_ReferenceScenario ==
    /\ pc \in {"extract", "total", "done"} => status = "Optimal"
    /\ pc \in {"total", "done"} => selected_projects = ReferenceSelection
    /\ pc = "done" => total_hours_saved = 40

\* the run ends with the very assignments the notebook prints
C6_Witness ==
    /\ pc = "done"
    /\ projects = ReferenceProjects /\ team = ReferenceTeam
    /\ max_concurrent_projects = None
    /\ team_assignments =
          << <<"Dr Bunsen Honeydew", "Secondary Deliverables reporting">>,
             <<"Pepe the King Prawn", "ISS">>,
             <<"Pepe the King Prawn", "Network Interventions lists">>,
             <<"Rowlf the Dog", "Pulse Report report generation">> >>

NumberSelected == Cardinality({p \in Range(projects) : Select(p) = 1})

\* C7: with a limit, a solved instance selects at most that many projects;
\* with the limit 0 the run ends Optimal with nothing selected and a total of 0.
C7_ConcurrencyCap ==
    max_concurrent_projects # None =>
        /\ Solved => NumberSelected <= max_concurrent_projects
        /\ Emitted => Len(selected_projects) <= max_concurrent_projects
        /\ (pc = "done" /\ max_concurrent_projects = 0) =>
              /\ status = "Optimal"
              /\ selected_projects = <<>>
              /\ total_hours_saved = 0

\* the limit 0 leaves out projects that save hours and that Rowlf could staff
C7_Witness ==
    /\ pc = "done"
    /\ max_concurrent_projects = 0
    /\ \A p \in Range(projects) :
          /\ p.hours_saved_per_month > 0
          /\ \E tm \in Range(team) :
                Qualifies(tm, p) /\ tm.hours_available >= p.hours_to_implement

\* C8: the notebook as it stands reports at most two selected projects.
C8_AtMostTwoProjects ==
    (max_concurrent_projects = None /\ pc \in {"total", "done"}) =>
        Len(selected_projects) <= 2

\* C9 as claimed: a member with no hours available appears in no emitted
\* assignment.
C9_ZeroCapacityNeverAssigned ==
    Emitted =>
        \A tm \in Range(team) :
            tm.hours_available = 0 => \A a \in EmittedPairs : a[1] # tm.name

\* C9, amended: with no negative hours_to_implement, a member with no hours
\* available is assigned only to projects that take no hours.
C9_ZeroCapacityOnlyZeroEffort ==
    (\A p \in Range(projects) : p.hours_to_implement >= 0) =>
        /\ Solved =>
              \A tm \in Range(team), p \in Range(projects) :
                  (tm.hours_available = 0 /\ Assign(tm, p) = 1) =>
                      p.hours_to_implement = 0
        /\ Emitted =>
              \A tm \in Range(team), a \in EmittedPairs :
                  (tm.hours_available = 0 /\ a[1] = tm.name) =>
                      ProjectNamed(a[2]).hours_to_implement = 0

\* a member with no hours is the one assignee of a project that takes none,
\* and is kept off a project that takes some and that it is qualified for
C9_Witness ==
    /\ Emitted /\ pc = "done"
    /\ \E tm \in Range(team), p, q \in Range(projects) :
          /\ tm.hours_available = 0
          /\ p.hours_to_implement = 0
          /\ {a \in EmittedPairs : a[2] = p.name} = {<<tm.name, p.name>>}
          /\ q.hours_to_implement > 0 /\ q.hours_saved_per_month > 0
          /\ Qualifies(tm, q)
          /\ Select(q) = 0

Forced(p) == \E c \in constraints : c.name = ForceSelectName(p.name)

NothingForced == \A p \in Range(projects) : ~Forced(p)

\* the project requires "APIs" at level 3 and no member has "APIs" at level 3 or more
NeedsAbsentAPIs(p) ==
    /\ "APIs" \in p.skills_required
    /\ p.python_level_required = 3
    /\ \A tm \in Range(team) : ~("APIs" \in tm.skills /\ tm.python_level >= 3)

\* C10: for a project requiring "APIs" at level 3 that no member can match,
\* the solve ends Infeasible when select = 1 was added for it, and Optimal
\* with the project unselected when nothing was added.
C10_Infeasibility ==
    pc \in {"extract", "total", "done"} =>
        \A p \in Range(projects) :
            NeedsAbsentAPIs(p) =>
                /\ Forced(p) => status = "Infeasible"
                /\ NothingForced => (status = "Optimal" /\ Select(p) = 0)
                /\ (NothingForced /\ pc \in {"total", "done"}) =>
                      p.name \notin Range(selected_projects)

\* the forced solve ended Infeasible although a member with "APIs", one level
\* short, has the hours for the project
C10_Witness ==
    /\ pc = "done"
    /\ status = "Infeasible"
    /\ \E p \in Range(projects) :
          /\ NeedsAbsentAPIs(p)
          /\ Forced(p)
          /\ \A q \in Range(projects) : Forced(q) => q = p
          /\ \E tm \in Range(team) :
                /\ "APIs" \in tm.skills
                /\ tm.hours_available >= p.hours_to_implement

\* the arguments of the last call, when it was of the class cls
CalledWith(cls) == call # <<>> /\ call[1] = cls

\* some skill tag of the call is not "APIs", "Excel" or "SQL", or its level
\* is not 0, 1, 2 or 3
BadSkillsOrLevel(skills, level) ==
    \/ \E tag \in skills.value : tag \notin {"APIs", "Excel", "SQL"}
    \/ level.value \notin 0..3

\* C11: a Project or TeamMember call with a skill tag outside APIs, Excel,
\* SQL, or a level outside 0..3, stops with the validation failure
\* (AssertionError in the code) and yields no object; every instance there is
\* has its skills among the three tags and its level in 0..3.
C11_SkillsAndLevelValidated ==
    /\ (CalledWith("Project") /\ BadSkillsOrLevel(call[2][4], call[2][5])) =>
          (exception = "AssertionError" /\ pc = "raised" /\ projects = <<>>)
    /\ (CalledWith("TeamMember") /\ BadSkillsOrLevel(call[2][3], call[2][4])) =>
          (exception = "AssertionError" /\ pc = "raised" /\ team = <<>>)
    /\ \A p \in Range(projects) :
          /\ p.skills_required \subseteq {"APIs", "Excel", "SQL"}
          /\ p.python_level_required \in 0..3
    /\ \A tm \in Range(team) :
          /\ tm.skills \subseteq {"APIs", "Excel", "SQL"}
          /\ tm.python_level \in 0..3

\* Project("ISS", 1, 1, ["SQL", "Java"], 1) was refused: only the tag is wrong
C11_Witness ==
    /\ CalledWith("Project")
    /\ call[2][2] = Value("int", 1) /\ call[2][3] = Value("int", 1)
    /\ call[2][4].value = {"SQL", "Java"}
    /\ call[2][5] = Value("int", 1)
    /\ exception = "AssertionError"
    /\ projects = <<>>

\* C12: a Project call with a negative hours_saved_per_month or
\* hours_to_implement, and a TeamMember call with a negative hours_available,
\* stops with the validation failure, and no instance has a negative number.
C12_NonNegativeNumerics ==
    /\ (CalledWith("Project") /\ (call[2][2].value < 0 \/ call[2][3].value < 0)) =>
          (exception = "AssertionError" /\ projects = <<>>)
    /\ (CalledWith("TeamMember") /\ call[2][2].value < 0) =>
          (exception = "AssertionError" /\ team = <<>>)
    /\ \A p \in Range(projects) :
          p.hours_saved_per_month >= 0 /\ p.hours_to_implement >= 0
    /\ \A tm \in Range(team) : tm.hours_available >= 0

\* two projects, or two members, of one name
DuplicateNames ==
    \/ \E i, j \in DOMAIN projects : i # j /\ projects[i].name = projects[j].name
    \/ \E i, j \in DOMAIN team : i # j /\ team[i].name = team[j].name

\* C13: from lists with a name twice the build stops before any constraint is
\* added to the problem and never reaches the solve.
C13_DuplicateNamesRefused ==
    DuplicateNames =>
        /\ constraints = {}
        /\ pc \notin {"solve", "extract", "total", "done"}

\* C14: when the solve did not end Optimal, the results hold no selected
\* project, no assignment and no total read from the variable values.
C14_OnlyStatusWhenNotOptimal ==
    (pc \in {"total", "done"} /\ status # "Optimal") =>
        /\ selected_projects = <<>>
        /\ team_assignments = <<>>
        /\ total_hours_saved = None

\* the place of the project named n in the input list
Place(n) == CHOOSE i \in DOMAIN projects : projects[i].name = n

\* the variables the solver left at 1
ValuedOne ==
    {SelectVar(p.name) : p \in {q \in Range(projects) : Select(q) = 1}}
        \cup {AssignVar(k[1], k[2]) :
                 k \in {a \in TeamNames \X ProjectNames : team_project_variables[a] = 1}}

\* C15: after an Optimal solve the selected names are exactly the projects
\* with select = 1, each once and in input order; the assignments are exactly
\* the pairs with assign = 1, each once; and the total is the sum of
\* hours_saved_per_month over the selected names, which is the objective
\* value of the solution.
C15_ResultInterpretation ==
    (Emitted /\ pc = "done") =>
        /\ Range(selected_projects) = {p.name : p \in {q \in Range(projects) : Select(q) = 1}}
        /\ \A j, k \in DOMAIN selected_projects :
              j < k => Place(selected_projects[j]) < Place(selected_projects[k])
        /\ Range(team_assignments) =
              {a \in TeamNames \X ProjectNames : team_project_variables[a] = 1}
        /\ \A j, k \in DOMAIN team_assignments :
              j # k => team_assignments[j] # team_assignments[k]
        /\ total_hours_saved = PlanBenefit(Range(selected_projects))
        /\ total_hours_saved = LhsValue(objective, ValuedOne)

\* both projects selected, of different non-zero benefit, staffed by
\* different members
C15_Witness ==
    /\ Emitted /\ pc = "done"
    /\ Len(selected_projects) = 2
    /\ projects[1].hours_saved_per_month > projects[2].hours_saved_per_month
    /\ projects[2].hours_saved_per_month > 0
    /\ Len(team_assignments) = 2
    /\ team_assignments[1][1] # team_assignments[2][1]

\* a pair the variables hold at 1 although the member is not qualified or the
\* project is not selected
Breaching(a) ==
    /\ team_project_variables[a] = 1
    /\ \/ ~Qualifies(MemberNamed(a[1]), ProjectNamed(a[2]))
       \/ project_variables[a[2]] # 1

\* C16: when an Optimal solve left at 1 a pair that is unqualified or whose
\* project is unselected, the extraction stops with an error and the pair is
\* not among the emitted assignments.
C16_ConsistencyChecked ==
    (pc \in {"total", "done"} /\ status = "Optimal") =>
        \A a \in TeamNames \X ProjectNames :
            Breaching(a) => (exception # "None" /\ a \notin Range(team_assignments))

\* C17: a second run on the same projects and team ends with the status of
\* the first and, when that is Optimal, with the same total hours saved.
C17_SameStatusAndTotal ==
    (pc = "done" /\ previous # <<>>) =>
        /\ status = previous[1]
        /\ status = "Optimal" => total_hours_saved = previous[2]

\* the second run ended on a selection that is not the only one of its
\* total: the other project alone saves as many hours
C17_Witness ==
    /\ pc = "done" /\ previous # <<>>
    /\ status = "Optimal"
    /\ total_hours_saved > 0
    /\ Len(selected_projects) = 1
    /\ \E p \in Range(projects) :
          /\ p.name \notin Range(selected_projects)
          /\ p.hours_saved_per_month = total_hours_saved

\* C18: after an Optimal solve every project whose select value is 0.5 or
\* more (1, or a little below 1) is among the selected names and counted in
\* the total, and every pair whose assign value is 0.5 or more is among the
\* emitted assignments.
C18_ThresholdAtHalf ==
    (pc = "done" /\ status = "Optimal") =>
        /\ \A p \in Range(projects) :
              project_variables[p.name] = 1 => p.name \in Range(selected_projects)
        /\ total_hours_saved =
              PlanBenefit({p.name : p \in {q \in Range(projects) : project_variables[q.name] = 1}})
        /\ \A a \in TeamNames \X ProjectNames :
              team_project_variables[a] = 1 => a \in Range(team_assignments)

NonNegativeHours ==
    /\ \A p \in Range(projects) : p.hours_to_implement >= 0
    /\ \A tm \in Range(team) : tm.hours_available >= 0

NoOneQualified ==
    \A tm \in Range(team), p \in Range(projects) : ~Qualifies(tm, p)

\* C19: with no negative hours_to_implement or hours_available and no limit,
\* every variable at 0 satisfies every constraint the cells have added, the
\* solve ends Optimal, and when no member is qualified for any project the
\* run ends with nothing selected and a total of 0.
C19_AlwaysFeasible ==
    NonNegativeHours =>
        /\ \A c \in constraints : Satisfies(c, {})
        /\ pc \in {"extract", "total", "done"} => status = "Optimal"
        /\ (pc = "done" /\ NoOneQualified) =>
              /\ selected_projects = <<>>
              /\ team_assignments = <<>>
              /\ total_hours_saved = 0

\* both projects ask for APIs at level 3, no member offers it, and the run
\* still ends Optimal
C19_Witness ==
    /\ pc = "done"
    /\ NonNegativeHours
    /\ NoOneQualified
    /\ status = "Optimal"
    /\ \A p \in Range(projects) : p.hours_saved_per_month > 0
    /\ \E c \in constraints : c.name[1] = "Skill_Python_Level_Match"

\* some one member is qualified for p and has the hours for all of it
Staffable(p) ==
    \E tm \in Range(team) :
        Qualifies(tm, p) /\ tm.hours_available >= p.hours_to_implement

\* C20: in every solution that satisfies the constraints built, in every
\* optimum returned and in every emitted selection, a selected project has
\* one qualified member with hours_available >= its hours_to_implement.
C20_UnstaffableNeverSelected ==
    /\ pc = "solve" =>
          \A on \in FeasibleSolutions : \A p \in Range(projects) :
              SelectVar(p.name) \in on => Staffable(p)
    /\ Solved => \A p \in Range(projects) : Select(p) = 1 => Staffable(p)
    /\ Emitted => \A n \in Range(selected_projects) : Staffable(ProjectNamed(n))

====
